---- MODULE Spec2Model ----
(***************************************************************************)
(* Slot availability and booking conflict logic of the medical appointment *)
(* backend (backend/chatbot.py, backend/main.py, backend/database.py).     *)
(*                                                                         *)
(* Representation.  A datetime is an integer number of minutes counted     *)
(* from 2026-01-01 00:00 (local clinic time).  A date string "YYYY-MM-DD"  *)
(* is a triple of digit sequences and a time string "HH:MM" a pair of      *)
(* digit sequences, so that strptime (which accepts one-digit fields) and  *)
(* strftime (which zero-pads) are different conversions.  Database tables  *)
(* are sequences: the row at index i has primary key i (autoincrement, no  *)
(* row is ever deleted by the code).                                       *)
(***************************************************************************)
EXTENDS Integers, Sequences, FiniteSets, TLC

VARIABLES
    utilisateurs,   \* table utilisateurs: [nom, telephone, role, est_actif]
    medecins,       \* table medecins: [utilisateur_id, duree_consultation]
    horaires,       \* table horaires_medecins
    rendez_vous,    \* table rendez_vous: [patient_id, medecin_id, date_heure, statut, motif]
    maintenant,     \* datetime.now(), in minutes
    reponse,        \* the result returned by the last completed call
    requetes        \* the requests in flight (concurrent handlers): position and locals

vars == <<utilisateurs, medecins, horaires, rendez_vous, maintenant, reponse, requetes>>

store == <<utilisateurs, medecins, horaires, rendez_vous>>

----------------------------------------------------------------------------
(* bounds of the model *)

\* rows of the table rendez_vous
MaxRdv == 3

\* advances of the clock
MaxTicks == 1

\* rows of the table rendez_vous when the administrator's requests are enumerated too
MaxRdvDemo == 2

\* requests handled concurrently
NbRequetes == 2

\* the consultation durations 1..MaxDuree are enumerated besides those of the demonstration data
MaxDuree == 3

\* the most slots the list creneaux may hold while a call is followed step by step
MaxCreneaux == 25

----------------------------------------------------------------------------
(* models.py enumerations *)

EN_ATTENTE == "en_attente"
CONFIRME == "confirme"
ANNULE == "annule"
TERMINE == "termine"

StatutRendezVous == {EN_ATTENTE, CONFIRME, ANNULE, TERMINE}

PATIENT == "patient"
MEDECIN == "medecin"
SECRETAIRE == "secretaire"
ADMIN == "admin"

\* the statuses both availability queries filter on
StatutsActifs == {EN_ATTENTE, CONFIRME}

----------------------------------------------------------------------------
(* datetime: strptime, strftime, weekday *)

MinutesParJour == 1440

\* a raised ValueError; a parsed value is [ok |-> TRUE, t |-> the datetime]
ValueError == [ok |-> FALSE, t |-> 0]

Parsed(t) == [ok |-> TRUE, t |-> t]

RECURSIVE Valeur(_)
\* int() of a sequence of decimal digits
Valeur(ds) == IF ds = <<>> THEN 0 ELSE 10 * Valeur(SubSeq(ds, 1, Len(ds) - 1)) + ds[Len(ds)]

Chiffres2(n) == <<(n \div 10) % 10, n % 10>>

Chiffres4(n) == <<(n \div 1000) % 10, (n \div 100) % 10, (n \div 10) % 10, n % 10>>

EstBissextile(y) == (y % 4 = 0 /\ y % 100 # 0) \/ y % 400 = 0

JoursDansAnnee(y) == IF EstBissextile(y) THEN 366 ELSE 365

JoursDansMois(y, m) ==
    IF m = 2 THEN (IF EstBissextile(y) THEN 29 ELSE 28)
    ELSE IF m \in {4, 6, 9, 11} THEN 30 ELSE 31

RECURSIVE JoursAvantAnnee(_)
\* days from 2026-01-01 to y-01-01
JoursAvantAnnee(y) ==
    IF y = 2026 THEN 0
    ELSE IF y > 2026 THEN JoursAvantAnnee(y - 1) + JoursDansAnnee(y - 1)
    ELSE JoursAvantAnnee(y + 1) - JoursDansAnnee(y)

RECURSIVE JoursAvantMois(_, _)
JoursAvantMois(y, m) == IF m = 1 THEN 0 ELSE JoursAvantMois(y, m - 1) + JoursDansMois(y, m - 1)

\* date ordinal (days since 2026-01-01) of a valid calendar date
Ordinal(y, m, d) == JoursAvantAnnee(y) + JoursAvantMois(y, m) + (d - 1)

\* datetime.strptime(date, "%Y-%m-%d"): the datetime at 00:00 of that day, or ValueError.
\* %Y takes exactly four digits, %m and %d one or two.
StrptimeDate(date) ==
    LET y == Valeur(date[1])
        m == Valeur(date[2])
        d == Valeur(date[3])
    IN  IF /\ Len(date[1]) = 4 /\ y >= 1
           /\ Len(date[2]) \in {1, 2} /\ m \in 1..12
           /\ Len(date[3]) \in {1, 2} /\ d >= 1 /\ d <= JoursDansMois(y, m)
        THEN Parsed(Ordinal(y, m, d) * MinutesParJour)
        ELSE ValueError

\* datetime.strptime(f"{date} {heure}", "%Y-%m-%d %H:%M")
StrptimeDateHeure(date, heure) ==
    LET j == StrptimeDate(date)
        h == Valeur(heure[1])
        mi == Valeur(heure[2])
    IN  IF /\ j.ok
           /\ Len(heure[1]) \in {1, 2} /\ h \in 0..23
           /\ Len(heure[2]) \in {1, 2} /\ mi \in 0..59
        THEN Parsed(j.t + 60 * h + mi)
        ELSE ValueError

\* datetime.date(): the day a datetime falls on
JourDe(t) == t \div MinutesParJour

\* datetime.weekday(): 0 = Monday; 2026-01-01 is a Thursday
Weekday(t) == (JourDe(t) + 3) % 7

\* strftime("%H:%M")
StrftimeHeure(t) == <<Chiffres2((t % MinutesParJour) \div 60), Chiffres2(t % 60)>>

RECURSIVE AnneeDe(_, _)
AnneeDe(j, y) ==
    IF j < JoursAvantAnnee(y) THEN AnneeDe(j, y - 1)
    ELSE IF j >= JoursAvantAnnee(y + 1) THEN AnneeDe(j, y + 1)
    ELSE y

RECURSIVE MoisDe(_, _, _)
MoisDe(r, y, m) == IF r >= JoursDansMois(y, m) THEN MoisDe(r - JoursDansMois(y, m), y, m + 1) ELSE m

\* strftime("%Y-%m-%d")
StrftimeDate(t) ==
    LET j == JourDe(t)
        y == AnneeDe(j, 2026)
        r == j - JoursAvantAnnee(y)
        m == MoisDe(r, y, 1)
    IN  <<Chiffres4(y), Chiffres2(m), Chiffres2(r - JoursAvantMois(y, m) + 1)>>

\* datetime_cible.replace(hour=h, minute=mi) of a datetime at 00:00
AvecHeure(date_cible, heure) == date_cible + 60 * Valeur(heure[1]) + Valeur(heure[2])

----------------------------------------------------------------------------
(* queries *)

\* Query.first(): the row with the least primary key among those selected, 0 when none
First(ids) == IF ids = {} THEN 0 ELSE CHOOSE i \in ids : \A k \in ids : i <= k

Ids(table) == 1..Len(table)

\* Optional[T]: None is <<>>, a value v is <<v>>
None == <<>>

Some(v) == <<v>>

----------------------------------------------------------------------------
(* the result dictionaries of ChatbotMedical, and the HTTP result of an endpoint *)

Resultat(op, args) ==
    [op |-> op, args |-> args, succes |-> FALSE, erreur |-> "", message |-> "",
     code |-> 200, creneaux_disponibles |-> <<>>, numero_rdv |-> <<>>, liste |-> <<>>]

Echec(op, args, erreur) == [Resultat(op, args) EXCEPT !.erreur = erreur]

HTTPException(op, args, code) == [Resultat(op, args) EXCEPT !.code = code]

ErrDateInvalide == "Format de date invalide. Utilisez YYYY-MM-DD"
ErrPasse == "Impossible de reserver dans le passe"
ErrMedecinNonTrouve == "Medecin non trouve"
MsgNeTravaillePas == "Le medecin ne travaille pas ce jour-la"
ErrDateHeureInvalide == "Format de date ou d'heure invalide"
ErrCreneauReserve == "Ce creneau est deja reserve. Veuillez choisir un autre horaire."
ErrRdvNonTrouve == "Rendez-vous non trouve"
ErrDejaAnnule == "Ce rendez-vous est deja annule"
ErrAucunRdv == "Aucun rendez-vous trouve avec ce numero de telephone"

\* f"RDV-{id:04d}"
NumeroRdv(id) == <<"RDV-", IF id < 10000 THEN Chiffres4(id) ELSE <<id>>>>

----------------------------------------------------------------------------
(* ChatbotMedical.obtenir_creneaux_disponibles *)

\* the working-hours query without the filter on est_actif
HoraireDuJourInactif(medecin_id, jour_semaine) ==
    First({i \in Ids(horaires) :
              /\ horaires[i].medecin_id = medecin_id
              /\ horaires[i].jour_semaine = jour_semaine})

\* the active working-hours row of the practitioner for that weekday (.first()), 0 when none
HoraireDuJour(medecin_id, jour_semaine) ==
    First({i \in Ids(horaires) :
              /\ horaires[i].medecin_id = medecin_id
              /\ horaires[i].jour_semaine = jour_semaine
              /\ horaires[i].est_actif})

\* date_heure of the practitioner's appointments of that day that count against availability
\* the query with the status filter reduced to en_attente
HeuresReserveesEnAttente(medecin_id, date_cible) ==
    {rendez_vous[i].date_heure : i \in
        {k \in Ids(rendez_vous) :
            /\ rendez_vous[k].medecin_id = medecin_id
            /\ rendez_vous[k].date_heure >= date_cible
            /\ rendez_vous[k].date_heure < date_cible + MinutesParJour
            /\ rendez_vous[k].statut = EN_ATTENTE}}

HeuresReservees(medecin_id, date_cible) ==
    {rendez_vous[i].date_heure : i \in
        {k \in Ids(rendez_vous) :
            /\ rendez_vous[k].medecin_id = medecin_id
            /\ rendez_vous[k].date_heure >= date_cible
            /\ rendez_vous[k].date_heure < date_cible + MinutesParJour
            /\ rendez_vous[k].statut \in StatutsActifs}}

\* the past-date test with today rejected as well
DateJusquAujourdhui(date_cible) == JourDe(date_cible) <= JourDe(maintenant)

\* date_cible.date() < datetime.now().date()
DatePassee(date_cible) == JourDe(date_cible) < JourDe(maintenant)

\* the test of the loop with a candidate equal to now kept
CreneauNonPasse(heure_actuelle, heures_reservees) ==
    heure_actuelle >= maintenant /\ heure_actuelle \notin heures_reservees

\* the test of the loop without the reservations
CreneauFutur(heure_actuelle, heures_reservees) == heure_actuelle > maintenant

\* whether the loop appends the candidate heure_actuelle
CreneauLibre(heure_actuelle, heures_reservees) ==
    heure_actuelle > maintenant /\ heure_actuelle \notin heures_reservees

\* the loop condition on the start of the candidate alone
DebutDansHoraire(heure_actuelle, duree, heure_limite) == heure_actuelle <= heure_limite

\* the loop condition with a strict comparison
FinAvantLimite(heure_actuelle, duree, heure_limite) == heure_actuelle + duree < heure_limite

\* the loop condition: the candidate's consultation ends within working hours
DansHoraire(heure_actuelle, duree, heure_limite) == heure_actuelle + duree <= heure_limite

\* the loop with the increment left out
NePasAvancer(heure_actuelle, duree) == heure_actuelle

\* heure_actuelle += timedelta(minutes=duree)
Avancer(heure_actuelle, duree) == heure_actuelle + duree

RECURSIVE GenererCreneaux(_, _, _, _)
\* the while loop: the datetimes appended to creneaux, in the order appended
GenererCreneaux(heure_actuelle, heure_limite, duree, heures_reservees) ==
    IF DansHoraire(heure_actuelle, duree, heure_limite)
    THEN (IF CreneauLibre(heure_actuelle, heures_reservees) THEN <<heure_actuelle>> ELSE <<>>)
         \o GenererCreneaux(Avancer(heure_actuelle, duree), heure_limite, duree, heures_reservees)
    ELSE <<>>

\* the datetimes of the slots offered for a practitioner row, a working-hours row and a day
CreneauxDuJour(medecin_id, horaire, date_cible) ==
    GenererCreneaux(AvecHeure(date_cible, horaires[horaire].heure_debut),
                    AvecHeure(date_cible, horaires[horaire].heure_fin),
                    medecins[medecin_id].duree_consultation,
                    HeuresReservees(medecin_id, date_cible))

\* the function with the practitioner looked up before the date is compared with today
ObtenirCreneauxMedecinDAbord(medecin_id, date) ==
    LET op == "obtenir_creneaux_disponibles"
        args == <<medecin_id, date>>
        date_cible == StrptimeDate(date)
        horaire == HoraireDuJour(medecin_id, Weekday(date_cible.t))
        creneaux == CreneauxDuJour(medecin_id, horaire, date_cible.t)
    IN  IF ~date_cible.ok THEN Echec(op, args, ErrDateInvalide)
        ELSE IF medecin_id \notin Ids(medecins) THEN Echec(op, args, ErrMedecinNonTrouve)
        ELSE IF DatePassee(date_cible.t) THEN Echec(op, args, ErrPasse)
        ELSE IF horaire = 0
             THEN [Resultat(op, args) EXCEPT !.succes = TRUE, !.message = MsgNeTravaillePas]
        ELSE [Resultat(op, args) EXCEPT
                 !.succes = TRUE,
                 !.creneaux_disponibles = [k \in 1..Len(creneaux) |-> StrftimeHeure(creneaux[k])]]

ObtenirCreneauxDisponibles(medecin_id, date) ==
    LET op == "obtenir_creneaux_disponibles"
        args == <<medecin_id, date>>
        date_cible == StrptimeDate(date)
        horaire == HoraireDuJour(medecin_id, Weekday(date_cible.t))
        creneaux == CreneauxDuJour(medecin_id, horaire, date_cible.t)
    IN  IF ~date_cible.ok THEN Echec(op, args, ErrDateInvalide)
        ELSE IF DatePassee(date_cible.t) THEN Echec(op, args, ErrPasse)
        ELSE IF medecin_id \notin Ids(medecins) THEN Echec(op, args, ErrMedecinNonTrouve)
        ELSE IF horaire = 0
             THEN [Resultat(op, args) EXCEPT !.succes = TRUE, !.message = MsgNeTravaillePas]
        ELSE [Resultat(op, args) EXCEPT
                 !.succes = TRUE,
                 !.creneaux_disponibles = [k \in 1..Len(creneaux) |-> StrftimeHeure(creneaux[k])]]

\* GET /api/medecins/{medecin_id}/disponibilites
DisponibilitesMedecin(medecin_id, date) ==
    /\ reponse' = ObtenirCreneauxDisponibles(medecin_id, date)
    /\ UNCHANGED <<store, maintenant, requetes>>

----------------------------------------------------------------------------
(* ChatbotMedical.reserver_rendez_vous *)

\* the availability check with the wrong status list (confirmed appointments not counted)
RdvExistantEnAttente(medecin_id, date_heure_rdv) ==
    First({i \in Ids(rendez_vous) :
              /\ rendez_vous[i].medecin_id = medecin_id
              /\ rendez_vous[i].date_heure = date_heure_rdv
              /\ rendez_vous[i].statut = EN_ATTENTE})

\* the availability check with the pending appointments left out
RdvExistantConfirme(medecin_id, date_heure_rdv) ==
    First({i \in Ids(rendez_vous) :
              /\ rendez_vous[i].medecin_id = medecin_id
              /\ rendez_vous[i].date_heure = date_heure_rdv
              /\ rendez_vous[i].statut = CONFIRME})

\* the availability check on the whole consultation: an active appointment of the
\* practitioner that starts less than one consultation before or after the instant
RdvExistantChevauchement(medecin_id, date_heure_rdv) ==
    First({i \in Ids(rendez_vous) :
              /\ rendez_vous[i].medecin_id = medecin_id
              /\ medecin_id \in Ids(medecins)
              /\ rendez_vous[i].date_heure - date_heure_rdv < medecins[medecin_id].duree_consultation
              /\ date_heure_rdv - rendez_vous[i].date_heure < medecins[medecin_id].duree_consultation
              /\ rendez_vous[i].statut \in StatutsActifs})

\* rdv_existant: an active appointment of the practitioner at exactly that datetime, 0 when none
RdvExistant(medecin_id, date_heure_rdv) ==
    First({i \in Ids(rendez_vous) :
              /\ rendez_vous[i].medecin_id = medecin_id
              /\ rendez_vous[i].date_heure = date_heure_rdv
              /\ rendez_vous[i].statut \in StatutsActifs})

\* the lookup by phone left out
PatientJamaisTrouve(telephone_patient) == 0

\* the account looked up by phone, 0 when the phone is empty or no account has it
PatientParTelephone(telephone_patient) ==
    IF telephone_patient = "" THEN 0
    ELSE First({i \in Ids(utilisateurs) : utilisateurs[i].telephone = telephone_patient})

NouveauPatient(nom_patient, telephone_patient) ==
    [nom |-> nom_patient,
     telephone |-> IF telephone_patient # "" THEN telephone_patient ELSE "0000000000",
     role |-> PATIENT, est_actif |-> TRUE]

\* the row left to the column default of statut
NouveauRdvEnAttente(patient_id, medecin_id, date_heure_rdv, motif) ==
    [patient_id |-> patient_id, medecin_id |-> medecin_id, date_heure |-> date_heure_rdv,
     statut |-> EN_ATTENTE, motif |-> motif]

NouveauRdv(patient_id, medecin_id, date_heure_rdv, motif) ==
    [patient_id |-> patient_id, medecin_id |-> medecin_id, date_heure |-> date_heure_rdv,
     statut |-> CONFIRME, motif |-> motif]

\* the handler with the patient looked up or created before the availability check
ReserverCompteDAbord(medecin_id, nom_patient, date, heure, telephone_patient, motif) ==
    LET op == "reserver_rendez_vous"
        args == <<medecin_id, nom_patient, date, heure, telephone_patient, motif>>
        date_heure_rdv == StrptimeDateHeure(date, heure)
        trouve == PatientParTelephone(telephone_patient)
        patient_id == IF trouve = 0 THEN Len(utilisateurs) + 1 ELSE trouve
    IN  /\ UNCHANGED <<medecins, horaires, maintenant, requetes>>
        /\ IF ~date_heure_rdv.ok
           THEN /\ reponse' = Echec(op, args, ErrDateHeureInvalide)
                /\ UNCHANGED <<utilisateurs, rendez_vous>>
           ELSE /\ Len(rendez_vous) < MaxRdv
                /\ utilisateurs' = IF trouve = 0
                                   THEN Append(utilisateurs, NouveauPatient(nom_patient, telephone_patient))
                                   ELSE utilisateurs
                /\ IF RdvExistant(medecin_id, date_heure_rdv.t) # 0
                   THEN /\ reponse' = Echec(op, args, ErrCreneauReserve)
                        /\ UNCHANGED rendez_vous
                   ELSE /\ rendez_vous' = Append(rendez_vous,
                                 NouveauRdv(patient_id, medecin_id, date_heure_rdv.t, motif))
                        /\ reponse' = [Resultat(op, args) EXCEPT
                                          !.succes = TRUE,
                                          !.message = "Votre rendez-vous a ete confirme !",
                                          !.numero_rdv = NumeroRdv(Len(rendez_vous) + 1)]

ReserverRendezVous(medecin_id, nom_patient, date, heure, telephone_patient, motif) ==
    LET op == "reserver_rendez_vous"
        args == <<medecin_id, nom_patient, date, heure, telephone_patient, motif>>
        date_heure_rdv == StrptimeDateHeure(date, heure)
        trouve == PatientParTelephone(telephone_patient)
        patient_id == IF trouve = 0 THEN Len(utilisateurs) + 1 ELSE trouve
    IN  /\ UNCHANGED <<medecins, horaires, maintenant, requetes>>
        /\ IF ~date_heure_rdv.ok
           THEN /\ reponse' = Echec(op, args, ErrDateHeureInvalide)
                /\ UNCHANGED <<utilisateurs, rendez_vous>>
           ELSE IF RdvExistant(medecin_id, date_heure_rdv.t) # 0
           THEN /\ reponse' = Echec(op, args, ErrCreneauReserve)
                /\ UNCHANGED <<utilisateurs, rendez_vous>>
           ELSE /\ Len(rendez_vous) < MaxRdv
                /\ utilisateurs' = IF trouve = 0
                                   THEN Append(utilisateurs, NouveauPatient(nom_patient, telephone_patient))
                                   ELSE utilisateurs
                /\ rendez_vous' = Append(rendez_vous,
                                         NouveauRdv(patient_id, medecin_id, date_heure_rdv.t, motif))
                /\ reponse' = [Resultat(op, args) EXCEPT
                                  !.succes = TRUE,
                                  !.message = "Votre rendez-vous a ete confirme !",
                                  !.numero_rdv = NumeroRdv(Len(rendez_vous) + 1)]

----------------------------------------------------------------------------
(* ChatbotMedical.annuler_rendez_vous *)

\* the status check left out
JamaisAnnule(rdv) == FALSE

\* the cancelled row with its reason cleared as well
RdvAnnuleSansMotif(rdv) == [rdv EXCEPT !.statut = ANNULE, !.motif = ""]

\* rendez_vous.statut = StatutRendezVous.ANNULE.value
RdvAnnule(rdv) == [rdv EXCEPT !.statut = ANNULE]

\* the status check that refuses a cancellation
DejaAnnule(rdv) == rdv.statut = ANNULE

AnnulerRendezVous(rendez_vous_id) ==
    LET op == "annuler_rendez_vous"
        args == <<rendez_vous_id>>
    IN  /\ UNCHANGED <<utilisateurs, medecins, horaires, maintenant, requetes>>
        /\ IF rendez_vous_id \notin Ids(rendez_vous)
           THEN /\ reponse' = Echec(op, args, ErrRdvNonTrouve)
                /\ UNCHANGED rendez_vous
           ELSE IF DejaAnnule(rendez_vous[rendez_vous_id])
           THEN /\ reponse' = Echec(op, args, ErrDejaAnnule)
                /\ UNCHANGED rendez_vous
           ELSE /\ rendez_vous' = [rendez_vous EXCEPT ![rendez_vous_id] = RdvAnnule(@)]
                /\ reponse' = [Resultat(op, args) EXCEPT !.succes = TRUE]

----------------------------------------------------------------------------
(* ChatbotMedical.consulter_mes_rendez_vous *)

\* the rows the joined query returns: the patient's appointments from now on whose
\* practitioner row and practitioner account exist (inner joins), in primary-key order
RendezVousFuturs(patient_id) ==
    {i \in Ids(rendez_vous) :
        /\ rendez_vous[i].patient_id = patient_id
        /\ rendez_vous[i].date_heure >= maintenant
        /\ rendez_vous[i].medecin_id \in Ids(medecins)
        /\ medecins[rendez_vous[i].medecin_id].utilisateur_id \in Ids(utilisateurs)}

RECURSIVE Lister(_, _)
\* the summaries of the rows ids (a set of primary keys), those above key k, ascending
Lister(ids, k) ==
    IF \A i \in ids : i <= k THEN <<>>
    ELSE LET i == First({n \in ids : n > k})
         IN  <<[numero |-> NumeroRdv(i),
                date |-> StrftimeDate(rendez_vous[i].date_heure),
                heure |-> StrftimeHeure(rendez_vous[i].date_heure),
                statut |-> rendez_vous[i].statut]>> \o Lister(ids, i)

\* the handler creating the account it does not find, as reserver_rendez_vous does
ConsulterOuCreerCompte(telephone_patient) ==
    LET op == "consulter_mes_rendez_vous"
        args == <<telephone_patient>>
        patient == First({i \in Ids(utilisateurs) : utilisateurs[i].telephone = telephone_patient})
    IN  /\ UNCHANGED <<medecins, horaires, rendez_vous, maintenant, requetes>>
        /\ utilisateurs' = IF patient = 0
                           THEN Append(utilisateurs, NouveauPatient("", telephone_patient))
                           ELSE utilisateurs
        /\ reponse' = IF patient = 0 THEN Echec(op, args, ErrAucunRdv)
                       ELSE [Resultat(op, args) EXCEPT
                                !.succes = TRUE, !.liste = Lister(RendezVousFuturs(patient), 0)]

ConsulterMesRendezVous(telephone_patient) ==
    LET op == "consulter_mes_rendez_vous"
        args == <<telephone_patient>>
        patient == First({i \in Ids(utilisateurs) : utilisateurs[i].telephone = telephone_patient})
    IN  /\ UNCHANGED <<store, maintenant, requetes>>
        /\ reponse' = IF patient = 0 THEN Echec(op, args, ErrAucunRdv)
                       ELSE [Resultat(op, args) EXCEPT
                                !.succes = TRUE, !.liste = Lister(RendezVousFuturs(patient), 0)]

----------------------------------------------------------------------------
(* deps.py, session_auth.py: the session cookie and the role check *)

COOKIE_MAX_AGE_SECONDS == 60 * 60 * 12

\* decoder_session_token: the payload's "sub", or None on BadSignature / SignatureExpired.
\* A token is None or Some([signature |-> BOOLEAN, age |-> seconds, sub |-> account id]).
DecoderSessionToken(token) ==
    IF token.signature /\ token.age <= COOKIE_MAX_AGE_SECONDS THEN Some(token.sub) ELSE None

\* the checks without the test of est_actif
RequireRolesSansActif(session_token, roles) ==
    IF session_token = None THEN 401
    ELSE LET payload == DecoderSessionToken(session_token[1])
         IN  IF payload = None THEN 401
             ELSE IF payload[1] \notin Ids(utilisateurs) THEN 401
             ELSE IF utilisateurs[payload[1]].role \notin roles THEN 403
             ELSE 200

\* get_current_user then require_roles(roles): 200 when the request passes, else 401 or 403
RequireRoles(session_token, roles) ==
    IF session_token = None THEN 401
    ELSE LET payload == DecoderSessionToken(session_token[1])
         IN  IF payload = None THEN 401
             ELSE IF payload[1] \notin Ids(utilisateurs) THEN 401
             ELSE IF ~utilisateurs[payload[1]].est_actif THEN 401
             ELSE IF utilisateurs[payload[1]].role \notin roles THEN 403
             ELSE 200

----------------------------------------------------------------------------
(* main.py: PATCH /api/admin/rendez-vous/{rdv_id} *)

\* the row after the assignments of the handler; requete is a RendezVousUpdateRequete
\* [medecin_id, date, heure, statut, motif], each field None or Some(value), a date
\* or time being None, the empty string <<>> or a string
RdvModifie(rdv, requete) ==
    LET avec_date == requete.date # <<>> /\ requete.heure # <<>>
    IN  [patient_id |-> rdv.patient_id,
         medecin_id |-> IF requete.medecin_id # None THEN requete.medecin_id[1] ELSE rdv.medecin_id,
         date_heure |-> IF avec_date THEN StrptimeDateHeure(requete.date, requete.heure).t
                        ELSE rdv.date_heure,
         statut |-> IF requete.statut # None THEN requete.statut[1] ELSE rdv.statut,
         motif |-> IF requete.motif # None THEN requete.motif[1] ELSE rdv.motif]

ModifierRendezVous(session_token, rdv_id, requete) ==
    LET op == "modifier_rendez_vous"
        args == <<session_token, rdv_id, requete>>
        acces == RequireRoles(session_token, {ADMIN, SECRETAIRE})
    IN  /\ UNCHANGED <<utilisateurs, medecins, horaires, maintenant, requetes>>
        /\ IF acces # 200
           THEN /\ reponse' = HTTPException(op, args, acces)
                /\ UNCHANGED rendez_vous
           ELSE IF rdv_id \notin Ids(rendez_vous)
           THEN /\ reponse' = HTTPException(op, args, 404)
                /\ UNCHANGED rendez_vous
           ELSE IF /\ requete.date # <<>> /\ requete.heure # <<>>
                   /\ ~StrptimeDateHeure(requete.date, requete.heure).ok
           THEN /\ reponse' = HTTPException(op, args, 400)
                /\ UNCHANGED rendez_vous
           ELSE /\ rendez_vous' = [rendez_vous EXCEPT ![rdv_id] = RdvModifie(@, requete)]
                /\ reponse' = [Resultat(op, args) EXCEPT !.succes = TRUE]

----------------------------------------------------------------------------
(* the clock *)

\* the clock at start-up: Tuesday 2026-11-03, 09:30
Maintenant0 == StrptimeDateHeure(<<<<2, 0, 2, 6>>, <<1, 1>>, <<0, 3>>>>, <<<<0, 9>>, <<3, 0>>>>).t

\* time passes (one day at a time) between two requests
Tick ==
    /\ maintenant < Maintenant0 + MaxTicks * MinutesParJour
    /\ maintenant' = maintenant + MinutesParJour
    /\ reponse' = Resultat("", <<>>)
    /\ UNCHANGED <<store, requetes>>

----------------------------------------------------------------------------
(* database.py: initialiser_base_de_donnees, the demonstration data *)

Compte(nom, telephone, role) == [nom |-> nom, telephone |-> telephone, role |-> role, est_actif |-> TRUE]

UtilisateursDemo ==
    <<Compte("Admin Clinique", "0600000000", ADMIN),
      Compte("Secretaire Clinique", "0600000001", SECRETAIRE),
      Compte("Dr. Martin Dupont", "0612345001", MEDECIN),
      Compte("Dr. Sophie Bernard", "0612345002", MEDECIN),
      Compte("Dr. Pierre Lambert", "0612345003", MEDECIN),
      Compte("Dr. Marie Leroy", "0612345004", MEDECIN),
      Compte("Jean Patient", "0698765432", PATIENT)>>

MedecinsDemo ==
    <<[utilisateur_id |-> 3, duree_consultation |-> 20],
      [utilisateur_id |-> 4, duree_consultation |-> 30],
      [utilisateur_id |-> 5, duree_consultation |-> 45],
      [utilisateur_id |-> 6, duree_consultation |-> 25]>>

H0900 == <<<<0, 9>>, <<0, 0>>>>

H1700 == <<<<1, 7>>, <<0, 0>>>>

\* for medecin_id in [1, 2, 3, 4]: for jour in range(5)
HorairesDemo ==
    [i \in 1..20 |->
        [medecin_id |-> ((i - 1) \div 5) + 1, jour_semaine |-> (i - 1) % 5,
         heure_debut |-> H0900, heure_fin |-> H1700, est_actif |-> TRUE]]

\* demain.replace(hour=10, minute=0, second=0, microsecond=0)
RendezVousDemo ==
    <<[patient_id |-> 7, medecin_id |-> 1,
       date_heure |-> (JourDe(Maintenant0) + 1) * MinutesParJour + 10 * 60,
       statut |-> CONFIRME, motif |-> "Consultation generale"]>>

AucuneReponse == Resultat("", <<>>)

Init ==
    /\ utilisateurs = UtilisateursDemo
    /\ medecins = MedecinsDemo
    /\ horaires = HorairesDemo
    /\ rendez_vous = RendezVousDemo
    /\ maintenant = Maintenant0
    /\ reponse = AucuneReponse
    /\ requetes = <<>>

----------------------------------------------------------------------------
(* the requests enumerated *)

Hier == <<<<2, 0, 2, 6>>, <<1, 1>>, <<0, 2>>>>
Aujourdhui == <<<<2, 0, 2, 6>>, <<1, 1>>, <<0, 3>>>>
Demain == <<<<2, 0, 2, 6>>, <<1, 1>>, <<0, 4>>>>

H1000 == <<<<1, 0>>, <<0, 0>>>>
H1020 == <<<<1, 0>>, <<2, 0>>>>

TelDemo == "0698765432"
TelNouveau == "0611111111"

MedecinsDemandes == {1, 2}
\* practitioner 1 (20 minutes) at 10:00, practitioner 2 (30 minutes) at 10:00 and 10:20
CreneauxDemandes == {<<1, Demain, H1000>>, <<2, Demain, H1000>>, <<2, Demain, H1020>>}
Telephones == {TelDemo, TelNouveau}
DatesConsultation == {Aujourdhui, Demain}

Reserver ==
    \E c \in CreneauxDemandes, telephone_patient \in Telephones :
        ReserverRendezVous(c[1], "Jean Dupont", c[2], c[3], telephone_patient, "")

Annuler == \E rendez_vous_id \in 1..(MaxRdv + 1) : AnnulerRendezVous(rendez_vous_id)

Disponibilites ==
    \E medecin_id \in MedecinsDemandes, date \in DatesConsultation :
        DisponibilitesMedecin(medecin_id, date)

Consulter == \E telephone_patient \in Telephones : ConsulterMesRendezVous(telephone_patient)

----------------------------------------------------------------------------
(* the public endpoints, one request at a time *)

NextPatient == Reserver \/ Annuler \/ Disponibilites \/ Consulter \/ Tick

SpecPatient == Init /\ [][NextPatient]_vars

----------------------------------------------------------------------------
(* every handler, one request at a time, the bookings on one slot *)

\* the session cookie of the administrator of the demonstration data, just issued
JetonAdmin == Some([signature |-> TRUE, age |-> 0, sub |-> 1])

\* a RendezVousUpdateRequete that sets only statut
RequeteStatut(statut) ==
    [medecin_id |-> None, date |-> <<>>, heure |-> <<>>, statut |-> Some(statut), motif |-> None]

\* a RendezVousUpdateRequete that moves the appointment to another practitioner
RequeteMedecin(medecin_id) ==
    [medecin_id |-> Some(medecin_id), date |-> <<>>, heure |-> <<>>, statut |-> None, motif |-> None]

\* a string that is no value of StatutRendezVous (RendezVousUpdateRequete.statut is a str)
StatutInconnu == "reporte"

RequetesModification ==
    {RequeteStatut(EN_ATTENTE), RequeteStatut(CONFIRME), RequeteStatut(TERMINE),
     RequeteStatut(StatutInconnu)}

Noms == {"Jean Dupont", "Marie Curie"}

\* a booking of the slot of the demonstration appointment
ReserverDemo ==
    /\ Len(rendez_vous) < MaxRdvDemo
    /\ \E telephone_patient \in Telephones :
          ReserverRendezVous(1, "Jean Dupont", Demain, H1000, telephone_patient, "")

\* a booking of that slot while it is taken, under any name and phone
ReserverOccupe ==
    /\ RdvExistant(1, StrptimeDateHeure(Demain, H1000).t) # 0
    /\ \E nom_patient \in Noms, telephone_patient \in {TelDemo, TelNouveau, ""} :
          ReserverRendezVous(1, nom_patient, Demain, H1000, telephone_patient, "")

\* 2026-02-30 and 25:00: strptime raises ValueError
DateInvalide == <<<<2, 0, 2, 6>>, <<0, 2>>, <<3, 0>>>>
HeureInvalide == <<<<2, 5>>, <<0, 0>>>>

\* a booking with a date or a time that does not parse
ReserverInvalide ==
    \E c \in {<<DateInvalide, H1000>>, <<Demain, HeureInvalide>>} :
        ReserverRendezVous(1, "Jean Dupont", c[1], c[2], TelNouveau, "")

Modifier ==
    \E rdv_id \in 1..MaxRdv, requete \in RequetesModification :
        ModifierRendezVous(JetonAdmin, rdv_id, requete)

DisponibilitesDemo == DisponibilitesMedecin(1, Demain)

Next == ReserverDemo \/ ReserverOccupe \/ ReserverInvalide \/ Annuler \/ Modifier \/ DisponibilitesDemo \/ Tick

Spec == Init /\ [][Next]_vars

----------------------------------------------------------------------------
(* concurrent handlers: reserver_rendez_vous as the statements it sends to the
   database, each query or commit one step; a handler sees what the others have
   committed (no lock, no uniqueness constraint on rendez_vous or on telephone) *)

Requetes == 1..NbRequetes

EnAttenteDeRequete == [pc |-> "debut", args |-> <<>>, date_heure |-> 0, patient_id |-> 0,
                       rep |-> AucuneReponse]

InitConcurrent ==
    /\ utilisateurs = UtilisateursDemo
    /\ medecins = MedecinsDemo
    /\ horaires = HorairesDemo
    /\ rendez_vous = RendezVousDemo
    /\ maintenant = Maintenant0
    /\ reponse = AucuneReponse
    /\ requetes = [p \in Requetes |-> EnAttenteDeRequete]

\* chatbot.py 343-366: parse, then the availability query
ReserverVerifier(p, medecin_id, nom_patient, date, heure, telephone_patient, motif) ==
    LET op == "reserver_rendez_vous"
        args == <<medecin_id, nom_patient, date, heure, telephone_patient, motif>>
        date_heure_rdv == StrptimeDateHeure(date, heure)
    IN  /\ requetes[p].pc = "debut"
        /\ requetes' = [requetes EXCEPT ![p] =
              IF ~date_heure_rdv.ok
              THEN [@ EXCEPT !.pc = "fin", !.args = args, !.rep = Echec(op, args, ErrDateHeureInvalide)]
              ELSE IF RdvExistant(medecin_id, date_heure_rdv.t) # 0
              THEN [@ EXCEPT !.pc = "fin", !.args = args, !.rep = Echec(op, args, ErrCreneauReserve)]
              ELSE [@ EXCEPT !.pc = "patient", !.args = args, !.date_heure = date_heure_rdv.t]]
        /\ UNCHANGED <<store, maintenant, reponse>>

\* chatbot.py 368-373: the query that looks the account up by phone
ReserverChercherPatient(p) ==
    LET trouve == PatientParTelephone(requetes[p].args[5])
    IN  /\ requetes[p].pc = "patient"
        /\ requetes' = [requetes EXCEPT ![p] =
              [@ EXCEPT !.pc = IF trouve = 0 THEN "compte" ELSE "rdv", !.patient_id = trouve]]
        /\ UNCHANGED <<store, maintenant, reponse>>

\* chatbot.py 375-383: no account was found: one is added and committed
ReserverCreerPatient(p) ==
    /\ requetes[p].pc = "compte"
    /\ utilisateurs' = Append(utilisateurs, NouveauPatient(requetes[p].args[2], requetes[p].args[5]))
    /\ requetes' = [requetes EXCEPT ![p] =
          [@ EXCEPT !.pc = "rdv", !.patient_id = Len(utilisateurs) + 1]]
    /\ UNCHANGED <<medecins, horaires, rendez_vous, maintenant, reponse>>

\* chatbot.py 385-416: the appointment inserted and committed, the confirmation returned
ReserverInserer(p) ==
    LET r == requetes[p]
    IN  /\ r.pc = "rdv"
        /\ rendez_vous' = Append(rendez_vous,
                                 NouveauRdv(r.patient_id, r.args[1], r.date_heure, r.args[6]))
        /\ requetes' = [requetes EXCEPT ![p] =
              [@ EXCEPT !.pc = "fin",
                        !.rep = [Resultat("reserver_rendez_vous", r.args) EXCEPT
                                    !.succes = TRUE,
                                    !.message = "Votre rendez-vous a ete confirme !",
                                    !.numero_rdv = NumeroRdv(Len(rendez_vous) + 1)]]]
        /\ UNCHANGED <<utilisateurs, medecins, horaires, maintenant, reponse>>

\* practitioner 1 at 10:00 (taken by the demonstration appointment), practitioner 2 at 10:00
CreneauxConcurrents == {<<1, Demain, H1000>>, <<2, Demain, H1000>>, <<2, Demain, H1020>>}

RecevoirReservation ==
    \E p \in Requetes, c \in CreneauxConcurrents, telephone_patient \in Telephones :
        ReserverVerifier(p, c[1], "Jean Dupont", c[2], c[3], telephone_patient, "")

ResoudrePatient == \E p \in Requetes : ReserverChercherPatient(p)

CreerPatient == \E p \in Requetes : ReserverCreerPatient(p)

InsererRendezVous == \E p \in Requetes : ReserverInserer(p)

NextConcurrent == RecevoirReservation \/ ResoudrePatient \/ CreerPatient \/ InsererRendezVous

SpecConcurrent == InitConcurrent /\ [][NextConcurrent]_vars

----------------------------------------------------------------------------
(* obtenir_creneaux_disponibles over working hours, durations and appointments drawn
   from bounded sets: one practitioner, the same hours on the five working days *)

H0910 == <<<<0, 9>>, <<1, 0>>>>
H0920 == <<<<0, 9>>, <<2, 0>>>>
H0925 == <<<<0, 9>>, <<2, 5>>>>
H0940 == <<<<0, 9>>, <<4, 0>>>>

\* Saturday 2026-11-07: no working-hours row
Samedi == <<<<2, 0, 2, 6>>, <<1, 1>>, <<0, 7>>>>

Durees == (1..MaxDuree) \cup {20, 30, 45}
HeuresDebut == {H0900, H0910, H1000}
HeuresFin == {H0900, H0925, H1000}

\* <<duree_consultation, heure_debut, heure_fin>>: every duration with every pair of
\* hours within 09:00-10:00, and the working day of the demonstration data
Configurations ==
    (Durees \X HeuresDebut \X HeuresFin) \cup ({20, 30, 45} \X {H0900} \X {H1700})

\* the table rendez_vous: empty, or one appointment of the practitioner tomorrow
RendezVousPossibles ==
    {<<>>} \cup
    {<<[patient_id |-> 7, medecin_id |-> 1, date_heure |-> StrptimeDateHeure(Demain, heure).t,
        statut |-> statut, motif |-> ""]>> :
        heure \in {H0900, H0920, H0940}, statut \in {CONFIRME, ANNULE}}

\* the weekdays whose row has est_actif false: none, or Wednesday (2026-11-04)
JoursInactifs == {{}, {2}}

DatesCreneaux == {Aujourdhui, Demain, Samedi, DateInvalide}

\* the practitioner of the table medecins, and an id that resolves to no practitioner
MedecinsCreneaux == {1, 2}

InitCreneaux ==
    /\ utilisateurs = UtilisateursDemo
    /\ \E c \in Configurations, inactifs \in JoursInactifs :
          /\ medecins = <<[utilisateur_id |-> 3, duree_consultation |-> c[1]]>>
          /\ horaires = [i \in 1..5 |->
                            [medecin_id |-> 1, jour_semaine |-> i - 1,
                             heure_debut |-> c[2], heure_fin |-> c[3],
                             est_actif |-> (i - 1) \notin inactifs]]
    /\ rendez_vous \in RendezVousPossibles
    /\ maintenant = Maintenant0
    /\ reponse = AucuneReponse
    /\ requetes = <<>>

DisponibilitesCreneaux ==
    \E medecin_id \in MedecinsCreneaux, date \in DatesCreneaux :
        DisponibilitesMedecin(medecin_id, date)

NextCreneaux == DisponibilitesCreneaux \/ Tick

SpecCreneaux == InitCreneaux /\ [][NextCreneaux]_vars

----------------------------------------------------------------------------
(* obtenir_creneaux_disponibles followed one loop iteration at a time: requetes holds
   the locals of the call in progress (<<>> when none); the clock does not move
   during a call, so that maintenant is the value read before the loop *)

H0932 == <<<<0, 9>>, <<3, 2>>>>

\* consultation durations, 0 included (the column has no constraint)
DureesBoucle == (0..MaxDuree) \cup {20}

\* <<heure_debut, heure_fin>>: a window around now, one shorter than a consultation of
\* 20 minutes, an empty one and one that ends before it starts
FenetresBoucle == {<<H0920, H0940>>, <<H0920, H0925>>, <<H0920, H0920>>, <<H0940, H0920>>}

DatesBoucle == {Aujourdhui, Demain, Samedi}

InitBoucle ==
    /\ utilisateurs = UtilisateursDemo
    /\ \E duree \in DureesBoucle, f \in FenetresBoucle :
          /\ medecins = <<[utilisateur_id |-> 3, duree_consultation |-> duree]>>
          /\ horaires = [i \in 1..5 |->
                            [medecin_id |-> 1, jour_semaine |-> i - 1,
                             heure_debut |-> f[1], heure_fin |-> f[2], est_actif |-> TRUE]]
    /\ rendez_vous \in {<<>>,
                         <<[patient_id |-> 7, medecin_id |-> 1,
                            date_heure |-> StrptimeDateHeure(Aujourdhui, H0932).t,
                            statut |-> CONFIRME, motif |-> ""]>>}
    /\ maintenant = Maintenant0
    /\ reponse = AucuneReponse
    /\ requetes = <<>>

\* the call returns before the loop (chatbot.py 229-270)
SansBoucle(medecin_id, date) ==
    \/ ~StrptimeDate(date).ok
    \/ DatePassee(StrptimeDate(date).t)
    \/ medecin_id \notin Ids(medecins)
    \/ HoraireDuJour(medecin_id, Weekday(StrptimeDate(date).t)) = 0

\* chatbot.py 229-304: the checks, then the locals of the loop
CommencerCreneaux(medecin_id, date) ==
    LET date_cible == StrptimeDate(date).t
        horaire == HoraireDuJour(medecin_id, Weekday(date_cible))
    IN  /\ requetes = <<>>
        /\ UNCHANGED <<store, maintenant>>
        /\ IF SansBoucle(medecin_id, date)
           THEN /\ reponse' = ObtenirCreneauxDisponibles(medecin_id, date)
                /\ UNCHANGED requetes
           ELSE /\ reponse' = AucuneReponse
                /\ requetes' = <<[args |-> <<medecin_id, date>>,
                                  heure_actuelle |-> AvecHeure(date_cible, horaires[horaire].heure_debut),
                                  heure_limite |-> AvecHeure(date_cible, horaires[horaire].heure_fin),
                                  duree |-> medecins[medecin_id].duree_consultation,
                                  heures_reservees |-> HeuresReservees(medecin_id, date_cible),
                                  creneaux |-> <<>>]>>

\* chatbot.py 305-309: one iteration of the while loop
IterationBoucle ==
    /\ requetes # <<>>
    /\ DansHoraire(requetes[1].heure_actuelle, requetes[1].duree, requetes[1].heure_limite)
    /\ Len(requetes[1].creneaux) < MaxCreneaux
    /\ requetes' = <<[requetes[1] EXCEPT
                         !.creneaux = IF CreneauLibre(requetes[1].heure_actuelle,
                                                      requetes[1].heures_reservees)
                                      THEN Append(@, requetes[1].heure_actuelle) ELSE @,
                         !.heure_actuelle = Avancer(@, requetes[1].duree)]>>
    /\ UNCHANGED <<store, maintenant, reponse>>

\* chatbot.py 305, 311-316: the loop test fails and the list is returned
FinBoucle ==
    /\ requetes # <<>>
    /\ ~DansHoraire(requetes[1].heure_actuelle, requetes[1].duree, requetes[1].heure_limite)
    /\ reponse' = [Resultat("obtenir_creneaux_disponibles", requetes[1].args) EXCEPT
                      !.succes = TRUE,
                      !.creneaux_disponibles = [k \in 1..Len(requetes[1].creneaux) |->
                                                   StrftimeHeure(requetes[1].creneaux[k])]]
    /\ requetes' = <<>>
    /\ UNCHANGED <<store, maintenant>>

DisponibilitesBoucle == \E date \in DatesBoucle : CommencerCreneaux(1, date)

NextBoucle == DisponibilitesBoucle \/ IterationBoucle \/ FinBoucle

\* a call in progress runs on: the loop is not preempted for ever
SpecBoucle ==
    InitBoucle /\ [][NextBoucle]_vars /\ WF_vars(IterationBoucle) /\ WF_vars(FinBoucle)

----------------------------------------------------------------------------
(* annuler_rendez_vous followed statement by statement, two requests at a time: the
   query and the test of the status, then the update and its commit *)

\* the demonstration appointment, confirmed, a second one of the same patient in one
\* of the states a cancellation can meet, and a third one or none
InitAnnulation ==
    /\ utilisateurs = UtilisateursDemo
    /\ medecins = MedecinsDemo
    /\ horaires = HorairesDemo
    /\ \E statut \in {CONFIRME, EN_ATTENTE, ANNULE}, n \in {2, 3} :
          rendez_vous = SubSeq(<<RendezVousDemo[1],
                                 [RendezVousDemo[1] EXCEPT !.medecin_id = 2, !.statut = statut],
                                 [RendezVousDemo[1] EXCEPT !.medecin_id = 3, !.statut = EN_ATTENTE]>>,
                               1, n)
    /\ maintenant = Maintenant0
    /\ reponse = AucuneReponse
    /\ requetes = [p \in Requetes |-> EnAttenteDeRequete]

\* chatbot.py 430-444: the row is read and its status tested
AnnulerLire(p, rendez_vous_id) ==
    LET op == "annuler_rendez_vous"
        args == <<rendez_vous_id>>
    IN  /\ requetes[p].pc = "debut"
        /\ requetes' = [requetes EXCEPT ![p] =
              IF rendez_vous_id \notin Ids(rendez_vous)
              THEN [@ EXCEPT !.pc = "fin", !.args = args, !.rep = Echec(op, args, ErrRdvNonTrouve)]
              ELSE IF DejaAnnule(rendez_vous[rendez_vous_id])
              THEN [@ EXCEPT !.pc = "fin", !.args = args, !.rep = Echec(op, args, ErrDejaAnnule)]
              ELSE [@ EXCEPT !.pc = "annuler", !.args = args]]
        /\ UNCHANGED <<store, maintenant, reponse>>

\* chatbot.py 446-453: the status set and committed, the confirmation returned
AnnulerEcrire(p) ==
    LET r == requetes[p]
    IN  /\ r.pc = "annuler"
        /\ rendez_vous' = [rendez_vous EXCEPT ![r.args[1]] = RdvAnnule(@)]
        /\ requetes' = [requetes EXCEPT ![p] =
              [@ EXCEPT !.pc = "fin",
                        !.rep = [Resultat("annuler_rendez_vous", r.args) EXCEPT
                                    !.succes = TRUE]]]
        /\ UNCHANGED <<utilisateurs, medecins, horaires, maintenant, reponse>>

RecevoirAnnulation ==
    \E p \in Requetes, rendez_vous_id \in 1..3 : AnnulerLire(p, rendez_vous_id)

ValiderAnnulation == \E p \in Requetes : AnnulerEcrire(p)

NextAnnulation == RecevoirAnnulation \/ ValiderAnnulation

SpecAnnulation == InitAnnulation /\ [][NextAnnulation]_vars

----------------------------------------------------------------------------
(* PATCH /api/admin/rendez-vous/{rdv_id} under every kind of session cookie, the
   administrator's account active or not *)

Jeton(signature, age, sub) == Some([signature |-> signature, age |-> age, sub |-> sub])

\* no cookie; a forged one; one just expired; one at its last second; one whose account
\* does not exist; those of the administrator, the secretary, a practitioner, the patient
Jetons ==
    {None, Jeton(FALSE, 0, 1), Jeton(TRUE, COOKIE_MAX_AGE_SECONDS + 1, 1),
     Jeton(TRUE, COOKIE_MAX_AGE_SECONDS, 2), Jeton(TRUE, 0, 99),
     Jeton(TRUE, 0, 1), Jeton(TRUE, 0, 2), Jeton(TRUE, 0, 3), Jeton(TRUE, 0, 7)}

InitAdmin ==
    /\ \E actif \in BOOLEAN :
          utilisateurs = [UtilisateursDemo EXCEPT ![1].est_actif = actif]
    /\ medecins = MedecinsDemo
    /\ horaires = HorairesDemo
    /\ rendez_vous = RendezVousDemo
    /\ maintenant = Maintenant0
    /\ reponse = AucuneReponse
    /\ requetes = <<>>

ModifierAvecJeton ==
    \E session_token \in Jetons, rdv_id \in 1..2,
       requete \in {RequeteStatut(TERMINE), RequeteStatut(ANNULE), RequeteMedecin(2)} :
        ModifierRendezVous(session_token, rdv_id, requete)

NextAdmin == ModifierAvecJeton \/ Tick

SpecAdmin == InitAdmin /\ [][NextAdmin]_vars

----------------------------------------------------------------------------
(* the bookings and the list of a patient: appointments today at the instant of the
   clock and after it, and one for a practitioner id that resolves to no practitioner
   (reserver_rendez_vous does not look the practitioner up before the insert) *)

H0930 == <<<<0, 9>>, <<3, 0>>>>

CreneauxConsultation == {<<1, Aujourdhui, H0930>>, <<1, Aujourdhui, H1000>>, <<9, Demain, H1000>>}

ReserverConsultation ==
    \E c \in CreneauxConsultation, telephone_patient \in Telephones :
        ReserverRendezVous(c[1], "Jean Dupont", c[2], c[3], telephone_patient, "")

NextConsultation == ReserverConsultation \/ Annuler \/ Consulter \/ Tick

SpecConsultation == Init /\ [][NextConsultation]_vars

----------------------------------------------------------------------------
(* obtenir_creneaux_disponibles and reserver_rendez_vous on one practitioner who
   works 09:00-10:00, with consultations of 20 or 30 minutes; requetes holds what the
   client was last offered, with the table rendez_vous the offer was computed from *)

InitAccord ==
    /\ utilisateurs = UtilisateursDemo
    /\ \E duree \in {20, 30} :
          medecins = <<[utilisateur_id |-> 3, duree_consultation |-> duree]>>
    /\ horaires = [i \in 1..5 |->
                      [medecin_id |-> 1, jour_semaine |-> i - 1,
                       heure_debut |-> H0900, heure_fin |-> H1000, est_actif |-> TRUE]]
    /\ \E statut \in {CONFIRME, ANNULE} :
          rendez_vous \in {<<>>, <<[patient_id |-> 7, medecin_id |-> 1,
                                    date_heure |-> StrptimeDateHeure(Demain, H0920).t,
                                    statut |-> statut, motif |-> ""]>>}
    /\ maintenant = Maintenant0
    /\ reponse = AucuneReponse
    /\ requetes = <<>>

\* <<medecin_id, date, heure>>: tomorrow at 09:00, 09:20 and 09:30
CreneauxAccord == {<<1, Demain, H0900>>, <<1, Demain, H0920>>, <<1, Demain, H0930>>}

ReserverAccord ==
    /\ Len(rendez_vous) < MaxRdvDemo
    /\ \E c \in CreneauxAccord :
          ReserverRendezVous(c[1], "Jean Dupont", c[2], c[3], TelDemo, "")

\* the call of obtenir_creneaux_disponibles, its answer kept by the client
ConsulterCreneaux(medecin_id, date) ==
    /\ reponse' = ObtenirCreneauxDisponibles(medecin_id, date)
    /\ requetes' = <<[offre |-> reponse', rendez_vous |-> rendez_vous]>>
    /\ UNCHANGED <<store, maintenant>>

DisponibilitesAccord ==
    \E date \in DatesConsultation : ConsulterCreneaux(1, date)

NextAccord == ReserverAccord \/ Annuler \/ DisponibilitesAccord \/ Tick

SpecAccord == InitAccord /\ [][NextAccord]_vars

----------------------------------------------------------------------------
(* properties *)

Actif(i) == rendez_vous[i].statut \in StatutsActifs

MemeCreneau(i, j) ==
    /\ rendez_vous[i].medecin_id = rendez_vous[j].medecin_id
    /\ rendez_vous[i].date_heure = rendez_vous[j].date_heure

\* C1: with the public requests executed one at a time from the demonstration data,
\* no practitioner has two appointments with status en_attente or confirme at the
\* same date-time.
PasDeDoubleReservation ==
    \A i, j \in Ids(rendez_vous) : (Actif(i) /\ Actif(j) /\ MemeCreneau(i, j)) => i = j

\* C1 witness: a slot was booked, cancelled and booked again, and the last call is a
\* booking refused on that slot
C1_Temoin ==
    /\ reponse.op = "reserver_rendez_vous" /\ reponse.erreur = ErrCreneauReserve
    /\ \E i, j \in Ids(rendez_vous) :
          /\ i # j /\ MemeCreneau(i, j) /\ Actif(i) /\ rendez_vous[j].statut = ANNULE
          /\ rendez_vous[i].medecin_id = reponse.args[1]
          /\ Parsed(rendez_vous[i].date_heure) = StrptimeDateHeure(reponse.args[3], reponse.args[4])

\* the request of the last call, when it is reserver_rendez_vous
ReservationDemandee(r) ==
    [medecin_id |-> r.args[1], date_heure |-> StrptimeDateHeure(r.args[3], r.args[4])]

\* C4: a cancel call on a confirmed appointment succeeds and sets it to annule; a
\* cancel call on an appointment already annule fails with "deja annule" and leaves it
\* annule; and no public request takes an appointment out of annule, so every later
\* cancel call on the same id fails.
C4_AnnulationUneFois ==
    [][\A i \in Ids(rendez_vous) :
          /\ rendez_vous[i].statut = ANNULE => rendez_vous'[i].statut = ANNULE
          /\ (reponse'.op = "annuler_rendez_vous" /\ reponse'.args = <<i>>) =>
                /\ rendez_vous[i].statut = CONFIRME =>
                      (reponse'.succes /\ rendez_vous'[i].statut = ANNULE)
                /\ rendez_vous[i].statut = ANNULE =>
                      (~reponse'.succes /\ reponse'.erreur = ErrDejaAnnule)]_vars

\* C4 witness: the second cancel call on an appointment has just been refused
C4_Temoin ==
    /\ reponse.op = "annuler_rendez_vous" /\ reponse.erreur = ErrDejaAnnule
    /\ rendez_vous[reponse.args[1]].statut = ANNULE

\* C6 (as claimed): a book call succeeds only for a time that obtenir_creneaux_disponibles
\* returns for that practitioner and date at that moment.
C6_ReservationSurCreneauOffert ==
    [][(reponse'.op = "reserver_rendez_vous" /\ reponse'.succes) =>
          LET offre == ObtenirCreneauxDisponibles(reponse'.args[1], reponse'.args[3])
              demande == StrftimeHeure(ReservationDemandee(reponse').date_heure.t)
          IN  /\ offre.succes
              /\ \E k \in 1..Len(offre.creneaux_disponibles) :
                    offre.creneaux_disponibles[k] = demande]_vars

\* C7: a successful book call appends exactly one appointment, for the requested
\* practitioner and instant, with status confirme, and leaves every existing
\* appointment as it was; and with the public requests only, no appointment ever has
\* status en_attente or termine.
C7_ReservationConfirmee ==
    /\ [](\A i \in Ids(rendez_vous) : rendez_vous[i].statut \notin {EN_ATTENTE, TERMINE})
    /\ [][(reponse'.op = "reserver_rendez_vous" /\ reponse'.succes) =>
            /\ Len(rendez_vous') = Len(rendez_vous) + 1
            /\ SubSeq(rendez_vous', 1, Len(rendez_vous)) = rendez_vous
            /\ rendez_vous'[Len(rendez_vous')].medecin_id = ReservationDemandee(reponse').medecin_id
            /\ Parsed(rendez_vous'[Len(rendez_vous')].date_heure)
                  = ReservationDemandee(reponse').date_heure
            /\ rendez_vous'[Len(rendez_vous')].statut = CONFIRME]_vars

\* C7 witness: a book call has just succeeded after another appointment was cancelled
C7_Temoin ==
    /\ reponse.op = "reserver_rendez_vous" /\ reponse.succes
    /\ reponse.numero_rdv = NumeroRdv(Len(rendez_vous))
    /\ rendez_vous[Len(rendez_vous)].statut = CONFIRME
    /\ \E i \in Ids(rendez_vous) : rendez_vous[i].statut = ANNULE

\* the candidates of the working-hours grid, in closed form: debut + k * duree with the
\* consultation ending by fin
SurLaGrille(c, debut, fin, duree) == c >= debut /\ (c - debut) % duree = 0 /\ c + duree <= fin

Offert(r, t) == \E k \in 1..Len(r.creneaux_disponibles) : r.creneaux_disponibles[k] = StrftimeHeure(t)

\* C9: a successful obtenir_creneaux_disponibles returns no slot equal to the start of
\* an active appointment of that practitioner on that date, and still returns the grid
\* candidates one consultation before and after it that are later than now and not
\* themselves the start of an active appointment.
C9_PasDeCreneauReserve ==
    (reponse.op = "obtenir_creneaux_disponibles" /\ reponse.succes) =>
        LET m == reponse.args[1]
            jour == StrptimeDate(reponse.args[2]).t
            h == HoraireDuJour(m, Weekday(jour))
            d == medecins[m].duree_consultation
            actifs == {rendez_vous[i].date_heure : i \in
                         {k \in Ids(rendez_vous) : Actif(k) /\ rendez_vous[k].medecin_id = m}}
        IN  \A t \in actifs : JourDe(t) = JourDe(jour) =>
               /\ ~Offert(reponse, t)
               /\ \A c \in {t - d, t + d} :
                     ( /\ h # 0
                       /\ SurLaGrille(c, AvecHeure(jour, horaires[h].heure_debut),
                                      AvecHeure(jour, horaires[h].heure_fin), d)
                       /\ c > maintenant /\ c \notin actifs ) => Offert(reponse, c)

\* C9 witness: practitioner 2 (30 minutes) has an active appointment at 10:00 tomorrow
\* and the slots just returned for tomorrow hold 09:30 and 10:30 and not 10:00
C9_Temoin ==
    /\ reponse.op = "obtenir_creneaux_disponibles" /\ reponse.succes
    /\ reponse.args = <<2, Demain>>
    /\ \E i \in Ids(rendez_vous) :
          /\ Actif(i) /\ rendez_vous[i].medecin_id = 2
          /\ Parsed(rendez_vous[i].date_heure) = StrptimeDateHeure(Demain, H1000)
    /\ \E k \in 1..Len(reponse.creneaux_disponibles) :
          reponse.creneaux_disponibles[k] = <<<<0, 9>>, <<3, 0>>>>
    /\ \E k \in 1..Len(reponse.creneaux_disponibles) :
          reponse.creneaux_disponibles[k] = <<<<1, 0>>, <<3, 0>>>>
    /\ \A k \in 1..Len(reponse.creneaux_disponibles) : reponse.creneaux_disponibles[k] # H1000

\* C2 (as claimed): of two concurrent book requests for the same practitioner and
\* instant at most one succeeds, and no practitioner has two confirmed appointments at
\* the same instant.
C2_UneSeuleReservation ==
    /\ \A p, q \in Requetes :
          ( /\ p # q /\ requetes[p].pc = "fin" /\ requetes[q].pc = "fin"
            /\ ReservationDemandee(requetes[p].rep) = ReservationDemandee(requetes[q].rep) )
          => ~(requetes[p].rep.succes /\ requetes[q].rep.succes)
    /\ \A i, j \in Ids(rendez_vous) :
          ( /\ rendez_vous[i].statut = CONFIRME /\ rendez_vous[j].statut = CONFIRME
            /\ MemeCreneau(i, j) ) => i = j

\* C3: a book call for a practitioner and instant at which that practitioner has an
\* appointment en_attente or confirme fails with "creneau deja reserve", whatever the
\* name and phone, and writes nothing.
C3_CreneauDejaReserve ==
    [][( /\ reponse'.op = "reserver_rendez_vous"
         /\ ReservationDemandee(reponse').date_heure.ok
         /\ \E i \in Ids(rendez_vous) :
               /\ Actif(i)
               /\ rendez_vous[i].medecin_id = ReservationDemandee(reponse').medecin_id
               /\ rendez_vous[i].date_heure = ReservationDemandee(reponse').date_heure.t )
       => ( /\ ~reponse'.succes /\ reponse'.erreur = ErrCreneauReserve
            /\ UNCHANGED store )]_vars

\* C3 witness: a book call under another name and without phone has just been refused
\* on a slot held by an appointment en_attente
C3_Temoin ==
    /\ reponse.op = "reserver_rendez_vous" /\ reponse.erreur = ErrCreneauReserve
    /\ reponse.args[2] = "Marie Curie" /\ reponse.args[5] = ""
    /\ \E i \in Ids(rendez_vous) :
          /\ rendez_vous[i].statut = EN_ATTENTE
          /\ rendez_vous[i].medecin_id = reponse.args[1]
          /\ Parsed(rendez_vous[i].date_heure) = ReservationDemandee(reponse).date_heure
    /\ \A i \in Ids(rendez_vous) : rendez_vous[i].statut # CONFIRME

\* C5 (as claimed): once the status of an appointment is annule or termine, no request
\* changes it.
C5_StatutsTerminaux ==
    [][\A i \in Ids(rendez_vous) :
          rendez_vous[i].statut \in {ANNULE, TERMINE} =>
              rendez_vous'[i].statut = rendez_vous[i].statut]_vars

\* a time string "HH:MM" as minutes of the day
MinuteDuJour(heure) == 60 * Valeur(heure[1]) + Valeur(heure[2])

\* the working-hours row obtenir_creneaux_disponibles used for the last call
HoraireUtilise == HoraireDuJour(reponse.args[1], Weekday(StrptimeDate(reponse.args[2]).t))

\* C8: every slot s returned by obtenir_creneaux_disponibles satisfies s >= heure_debut
\* and s + duree_consultation <= heure_fin of the active working-hours row of that
\* weekday, for every duration and every pair of hours enumerated.
C8_DansLaGrille ==
    (reponse.op = "obtenir_creneaux_disponibles" /\ reponse.succes) =>
        \A k \in 1..Len(reponse.creneaux_disponibles) :
            /\ HoraireUtilise # 0
            /\ MinuteDuJour(reponse.creneaux_disponibles[k])
                  >= MinuteDuJour(horaires[HoraireUtilise].heure_debut)
            /\ MinuteDuJour(reponse.creneaux_disponibles[k])
                  + medecins[reponse.args[1]].duree_consultation
                  <= MinuteDuJour(horaires[HoraireUtilise].heure_fin)

\* C8 witness: slots were returned for working hours that are not a whole number of
\* consultations, so that a partial trailing slot exists
C8_Temoin ==
    /\ reponse.op = "obtenir_creneaux_disponibles"
    /\ Len(reponse.creneaux_disponibles) >= 2
    /\ ( MinuteDuJour(horaires[HoraireUtilise].heure_fin)
          - MinuteDuJour(horaires[HoraireUtilise].heure_debut) )
        % medecins[reponse.args[1]].duree_consultation # 0

\* the last call asked for a day after today on which the practitioner works and has
\* no active appointment
JourFuturSansRendezVous ==
    /\ reponse.op = "obtenir_creneaux_disponibles" /\ reponse.succes
    /\ JourDe(StrptimeDate(reponse.args[2]).t) > JourDe(maintenant)
    /\ HoraireUtilise # 0
    /\ \A i \in Ids(rendez_vous) :
          ( Actif(i) /\ rendez_vous[i].medecin_id = reponse.args[1] )
          => JourDe(rendez_vous[i].date_heure) # JourDe(StrptimeDate(reponse.args[2]).t)

\* C10: for a future date, an active working-hours row [debut, fin], a duration D and no
\* active appointment that day, the slots returned are exactly debut + k * D for
\* k = 0 .. floor((fin - debut) / D) - 1, in that order; for 09:00-17:00 and D = 30
\* they are the 16 slots 09:00, 09:30, ..., 16:30.
C10_GrilleComplete ==
    JourFuturSansRendezVous =>
        LET debut == MinuteDuJour(horaires[HoraireUtilise].heure_debut)
            fin == MinuteDuJour(horaires[HoraireUtilise].heure_fin)
            D == medecins[reponse.args[1]].duree_consultation
            n == (fin - debut) \div D
            r == reponse.creneaux_disponibles
        IN  /\ Len(r) = (IF n > 0 THEN n ELSE 0)
            /\ \A k \in 1..Len(r) : r[k] = StrftimeHeure(debut + (k - 1) * D)
            /\ (debut = 9 * 60 /\ fin = 17 * 60 /\ D = 30) =>
                  ( /\ Len(r) = 16
                    /\ r[1] = <<<<0, 9>>, <<0, 0>>>>
                    /\ r[2] = <<<<0, 9>>, <<3, 0>>>>
                    /\ r[16] = <<<<1, 6>>, <<3, 0>>>> )

\* C10 witness: the 16 slots of 09:00-17:00 in consultations of 30 minutes were returned
C10_Temoin ==
    /\ JourFuturSansRendezVous
    /\ horaires[HoraireUtilise].heure_debut = H0900
    /\ horaires[HoraireUtilise].heure_fin = H1700
    /\ medecins[reponse.args[1]].duree_consultation = 30
    /\ Len(reponse.creneaux_disponibles) = 16

\* the date of a request "YYYY-MM-DD" and the date of the clock, as <<year, month, day>>
DateDemandee(date) == <<Valeur(date[1]), Valeur(date[2]), Valeur(date[3])>>

DateDuJour == DateDemandee(StrftimeDate(maintenant))

\* lexicographic order on <<year, month, day>>
DateAvant(a, b) ==
    \/ a[1] < b[1]
    \/ a[1] = b[1] /\ a[2] < b[2]
    \/ a[1] = b[1] /\ a[2] = b[2] /\ a[3] < b[3]

\* the rows of horaires for the practitioner and the weekday of the last call
LignesDuJour ==
    {i \in Ids(horaires) :
        /\ horaires[i].medecin_id = reponse.args[1]
        /\ horaires[i].jour_semaine = Weekday(StrptimeDate(reponse.args[2]).t)}

\* C11: for an existing practitioner and a date not before today, when no row of
\* horaires for that practitioner and weekday has est_actif true (no row at all, or
\* only inactive ones), obtenir_creneaux_disponibles returns succes with no slot, the
\* message "le medecin ne travaille pas ce jour-la" and no error.
C11_NeTravaillePas ==
    ( /\ reponse.op = "obtenir_creneaux_disponibles"
      /\ reponse.args[1] \in Ids(medecins)
      /\ StrptimeDate(reponse.args[2]).ok
      /\ ~DateAvant(DateDemandee(reponse.args[2]), DateDuJour)
      /\ \A i \in LignesDuJour : ~horaires[i].est_actif )
    => ( /\ reponse.succes
         /\ reponse.erreur = ""
         /\ reponse.creneaux_disponibles = <<>>
         /\ reponse.message = MsgNeTravaillePas )

\* C11 witness: the only row of the practitioner for the weekday asked is inactive and
\* its hours would hold a slot, and the call returned no slot with the message
C11_Temoin ==
    /\ reponse.op = "obtenir_creneaux_disponibles" /\ reponse.succes
    /\ reponse.message = MsgNeTravaillePas
    /\ LignesDuJour # {}
    /\ \A i \in LignesDuJour :
          /\ ~horaires[i].est_actif
          /\ MinuteDuJour(horaires[i].heure_debut) + medecins[reponse.args[1]].duree_consultation
                <= MinuteDuJour(horaires[i].heure_fin)

\* C12: obtenir_creneaux_disponibles for a date before the date of the clock fails with
\* "impossible de reserver dans le passe" and returns no slot, whether the practitioner
\* exists or not; for the date of the clock it does not fail with that error.
C12_DatePasseeRefusee ==
    (reponse.op = "obtenir_creneaux_disponibles" /\ StrptimeDate(reponse.args[2]).ok) =>
        /\ DateAvant(DateDemandee(reponse.args[2]), DateDuJour) =>
              ( /\ ~reponse.succes /\ reponse.erreur = ErrPasse
                /\ reponse.creneaux_disponibles = <<>> )
        /\ DateDemandee(reponse.args[2]) = DateDuJour => reponse.erreur # ErrPasse

\* C12 witness: the clock has moved to the next day and the call for the day before,
\* for an id that resolves to no practitioner, was refused as past
C12_Temoin ==
    /\ reponse.op = "obtenir_creneaux_disponibles" /\ reponse.erreur = ErrPasse
    /\ reponse.args[1] \notin Ids(medecins)
    /\ maintenant > Maintenant0
    /\ JourDe(StrptimeDate(reponse.args[2]).t) = JourDe(maintenant) - 1

\* the last call asked for the date of the clock and found an active working-hours row
DemandePourAujourdhui ==
    /\ reponse.op = "obtenir_creneaux_disponibles" /\ reponse.succes
    /\ DateDemandee(reponse.args[2]) = DateDuJour
    /\ HoraireUtilise # 0

\* midnight of the day of the clock
Minuit == JourDe(maintenant) * MinutesParJour

\* C13: when the requested date is today, every slot returned is strictly later than
\* now, and a candidate of the working-hours grid is returned exactly when it is later
\* than now and is not the start of an active appointment of the practitioner: a
\* candidate equal to or earlier than now is dropped.
C13_ApresMaintenant ==
    DemandePourAujourdhui =>
        LET debut == Minuit + MinuteDuJour(horaires[HoraireUtilise].heure_debut)
            fin == Minuit + MinuteDuJour(horaires[HoraireUtilise].heure_fin)
            D == medecins[reponse.args[1]].duree_consultation
            actifs == {rendez_vous[i].date_heure : i \in
                         {k \in Ids(rendez_vous) :
                             Actif(k) /\ rendez_vous[k].medecin_id = reponse.args[1]}}
        IN  /\ \A k \in 1..Len(reponse.creneaux_disponibles) :
                  Minuit + MinuteDuJour(reponse.creneaux_disponibles[k]) > maintenant
            /\ \A c \in debut..fin :
                  SurLaGrille(c, debut, fin, D) =>
                      (Offert(reponse, c) <=> (c > maintenant /\ c \notin actifs))

\* C13 witness: the grid of today starts before now and has a candidate equal to now,
\* which was dropped, and the candidate after it was returned
C13_Temoin ==
    /\ DemandePourAujourdhui
    /\ LET debut == Minuit + MinuteDuJour(horaires[HoraireUtilise].heure_debut)
           fin == Minuit + MinuteDuJour(horaires[HoraireUtilise].heure_fin)
           D == medecins[reponse.args[1]].duree_consultation
       IN  /\ debut < maintenant
           /\ SurLaGrille(maintenant, debut, fin, D)
           /\ ~Offert(reponse, maintenant)
           /\ SurLaGrille(maintenant + D, debut, fin, D)
           /\ Offert(reponse, maintenant + D)

AppelEchoue(r) ==
    /\ r.op \in {"reserver_rendez_vous", "annuler_rendez_vous"}
    /\ ~r.succes

\* C15: a book call that fails ("format de date ou d'heure invalide" or "creneau deja
\* reserve") and a cancel call that fails ("rendez-vous non trouve" or "deja annule")
\* change no account and no appointment, and the same call made again right after a
\* failure returns the same failure.
C15_EchecSansEffet ==
    /\ [][AppelEchoue(reponse') =>
            ( /\ reponse'.erreur \in {ErrDateHeureInvalide, ErrCreneauReserve,
                                      ErrRdvNonTrouve, ErrDejaAnnule}
              /\ UNCHANGED store )]_vars
    /\ [][( /\ AppelEchoue(reponse)
            /\ reponse'.op = reponse.op /\ reponse'.args = reponse.args )
          => ( reponse' = reponse /\ UNCHANGED store )]_vars

\* C15 witness: a book call without phone, which creates an account when it succeeds,
\* has just been refused on a taken slot and the accounts are those of the start
C15_Temoin ==
    /\ AppelEchoue(reponse)
    /\ reponse.erreur = ErrCreneauReserve
    /\ reponse.args[5] = ""
    /\ utilisateurs = UtilisateursDemo

\* C16: a successful cancel call changes only the status of the appointment with the
\* given id, to annule: its practitioner, patient, date-time and reason, every other
\* appointment, every account, practitioner and working-hours row are unchanged.
C16_SeulLeStatutChange ==
    [][(reponse'.op = "annuler_rendez_vous" /\ reponse'.succes) =>
          /\ Len(rendez_vous') = Len(rendez_vous)
          /\ \A j \in Ids(rendez_vous) :
                /\ rendez_vous'[j].medecin_id = rendez_vous[j].medecin_id
                /\ rendez_vous'[j].patient_id = rendez_vous[j].patient_id
                /\ rendez_vous'[j].date_heure = rendez_vous[j].date_heure
                /\ rendez_vous'[j].motif = rendez_vous[j].motif
                /\ rendez_vous'[j].statut =
                      IF <<j>> = reponse'.args THEN ANNULE ELSE rendez_vous[j].statut
          /\ UNCHANGED <<utilisateurs, medecins, horaires>>]_vars

\* C16 witness: the demonstration appointment has just been cancelled while another
\* appointment exists, and it kept its reason
C16_Temoin ==
    /\ reponse.op = "annuler_rendez_vous" /\ reponse.succes /\ reponse.args = <<1>>
    /\ Len(rendez_vous) >= 2
    /\ rendez_vous[1].statut = ANNULE
    /\ rendez_vous[1].motif = "Consultation generale"
    /\ rendez_vous[2].statut # ANNULE

Lectures == {"obtenir_creneaux_disponibles", "consulter_mes_rendez_vous"}

\* C17: obtenir_creneaux_disponibles and consulter_mes_rendez_vous, whether they succeed
\* or fail, change no account, practitioner, working-hours row or appointment; and a
\* call of either made right after the same call, with no write in between and the
\* same clock, returns the same result.
C17_LecturesPures ==
    /\ [][reponse'.op \in Lectures => UNCHANGED store]_vars
    /\ [][( /\ reponse.op \in Lectures
            /\ reponse'.op = reponse.op /\ reponse'.args = reponse.args
            /\ UNCHANGED <<store, maintenant>> )
          => reponse' = reponse]_vars

\* C17 witness: consulter_mes_rendez_vous has just failed for a phone no account has,
\* after bookings under another phone, and the accounts are those of the start
C17_Temoin ==
    /\ reponse.op = "consulter_mes_rendez_vous" /\ ~reponse.succes
    /\ reponse.args = <<TelNouveau>>
    /\ Len(rendez_vous) >= 2
    /\ utilisateurs = UtilisateursDemo

\* the accounts with that phone
ComptesAvec(telephone) == {i \in Ids(utilisateurs) : utilisateurs[i].telephone = telephone}

\* C18: a successful book call with a non-empty phone: when an account has that phone,
\* no account is created or altered and the new appointment belongs to that account;
\* otherwise exactly one account is appended, with role patient and that phone, and
\* the new appointment belongs to it.  Hence, with the calls made one at a time, no
\* two accounts ever have the same phone.
C18_CompteParTelephone ==
    /\ [][(reponse'.op = "reserver_rendez_vous" /\ reponse'.succes /\ reponse'.args[5] # "") =>
            LET rdv == rendez_vous'[Len(rendez_vous')]
                n == Len(utilisateurs)
            IN  IF ComptesAvec(reponse'.args[5]) # {}
                THEN /\ utilisateurs' = utilisateurs
                     /\ rdv.patient_id \in ComptesAvec(reponse'.args[5])
                ELSE /\ Len(utilisateurs') = n + 1
                     /\ SubSeq(utilisateurs', 1, n) = utilisateurs
                     /\ utilisateurs'[n + 1].role = PATIENT
                     /\ utilisateurs'[n + 1].telephone = reponse'.args[5]
                     /\ rdv.patient_id = n + 1]_vars
    /\ [](\A i, j \in Ids(utilisateurs) :
             utilisateurs[i].telephone = utilisateurs[j].telephone => i = j)

\* C18 witness: the second book call with a phone unknown at the start has just
\* succeeded: one account has that phone, it is a patient, and it owns two appointments
C18_Temoin ==
    /\ reponse.op = "reserver_rendez_vous" /\ reponse.succes
    /\ reponse.args[5] = TelNouveau
    /\ Cardinality(ComptesAvec(TelNouveau)) = 1
    /\ \A i \in ComptesAvec(TelNouveau) :
          /\ utilisateurs[i].role = PATIENT
          /\ Cardinality({k \in Ids(rendez_vous) : rendez_vous[k].patient_id = i}) = 2

\* C19 (as claimed): when two concurrent book requests carrying the same phone, unknown
\* at the start, for different slots, have both succeeded, exactly one account has that
\* phone and both appointments belong to it.
C19_UnSeulCompte ==
    \A p, q \in Requetes :
        ( /\ p # q
          /\ requetes[p].pc = "fin" /\ requetes[p].rep.succes
          /\ requetes[q].pc = "fin" /\ requetes[q].rep.succes
          /\ requetes[p].args[5] = requetes[q].args[5]
          /\ \A i \in Ids(UtilisateursDemo) : UtilisateursDemo[i].telephone # requetes[p].args[5]
          /\ ReservationDemandee(requetes[p].rep) # ReservationDemandee(requetes[q].rep) )
        => /\ Cardinality(ComptesAvec(requetes[p].args[5])) = 1
           /\ \A i \in Ids(rendez_vous) :
                 NumeroRdv(i) \in {requetes[p].rep.numero_rdv, requetes[q].rep.numero_rdv}
                 => rendez_vous[i].patient_id \in ComptesAvec(requetes[p].args[5])

\* C20 (as claimed): consulter_mes_rendez_vous fails, with "aucun rendez-vous trouve",
\* exactly when no account has the phone; otherwise it returns exactly the appointments
\* of the account with that phone whose date-time is >= now, whatever their status, and
\* no appointment of another account.
C20_RendezVousAVenir ==
    reponse.op = "consulter_mes_rendez_vous" =>
        LET comptes == ComptesAvec(reponse.args[1])
            attendus == {i \in Ids(rendez_vous) :
                            /\ rendez_vous[i].patient_id \in comptes
                            /\ rendez_vous[i].date_heure >= maintenant}
        IN  /\ reponse.succes <=> comptes # {}
            /\ comptes = {} => reponse.erreur = ErrAucunRdv
            /\ reponse.succes =>
                  /\ Len(reponse.liste) = Cardinality(attendus)
                  /\ {reponse.liste[k].numero : k \in 1..Len(reponse.liste)}
                        = {NumeroRdv(i) : i \in attendus}
                  /\ \A k \in 1..Len(reponse.liste), i \in attendus :
                        reponse.liste[k].numero = NumeroRdv(i) =>
                            /\ reponse.liste[k].statut = rendez_vous[i].statut
                            /\ reponse.liste[k].date = StrftimeDate(rendez_vous[i].date_heure)
                            /\ reponse.liste[k].heure = StrftimeHeure(rendez_vous[i].date_heure)

\* the instants at which the practitioner has an appointment en_attente or confirme
DebutsActifs(medecin_id) ==
    {rendez_vous[i].date_heure : i \in
        {k \in Ids(rendez_vous) : Actif(k) /\ rendez_vous[k].medecin_id = medecin_id}}

\* C21: a book call for practitioner p at instant t succeeds whenever no appointment
\* en_attente or confirme of p starts exactly at t, also when t lies less than one
\* consultation after or before such an appointment; and obtenir_creneaux_disponibles
\* returns every grid candidate later than now at which no such appointment starts, so
\* that an active appointment starting off the grid removes no slot.
C21_CollisionExacteSeulement ==
    /\ [][( /\ reponse'.op = "reserver_rendez_vous"
            /\ ReservationDemandee(reponse').date_heure.ok
            /\ ReservationDemandee(reponse').date_heure.t
                  \notin DebutsActifs(ReservationDemandee(reponse').medecin_id) )
          => reponse'.succes]_vars
    /\ []( (reponse.op = "obtenir_creneaux_disponibles" /\ reponse.succes /\ HoraireUtilise # 0) =>
            LET jour == StrptimeDate(reponse.args[2]).t
                debut == AvecHeure(jour, horaires[HoraireUtilise].heure_debut)
                fin == AvecHeure(jour, horaires[HoraireUtilise].heure_fin)
                D == medecins[reponse.args[1]].duree_consultation
            IN  \A c \in debut..fin :
                    ( /\ SurLaGrille(c, debut, fin, D)
                      /\ c > maintenant
                      /\ c \notin DebutsActifs(reponse.args[1]) )
                    => Offert(reponse, c) )

\* C21 witness: practitioner 2 (30 minutes) has confirmed appointments tomorrow at 10:00
\* and at 10:20, and the slots just returned for tomorrow hold 09:30 and 10:30, the
\* grid candidates that the appointment of 10:20 overlaps or follows
C21_Temoin ==
    /\ reponse.op = "obtenir_creneaux_disponibles" /\ reponse.succes
    /\ reponse.args = <<2, Demain>>
    /\ StrptimeDateHeure(Demain, H1000).t \in DebutsActifs(2)
    /\ StrptimeDateHeure(Demain, H1020).t \in DebutsActifs(2)
    /\ Offert(reponse, StrptimeDateHeure(Demain, H1020).t + 10)
    /\ Offert(reponse, StrptimeDateHeure(Demain, H1000).t - 30)
    /\ ~Offert(reponse, StrptimeDateHeure(Demain, H1000).t)

\* C22: obtenir_creneaux_disponibles tests, in this order, the format of the date, the
\* date against today, the practitioner, the working hours: a date that does not parse
\* gives "format de date invalide"; a date before today gives "impossible de reserver
\* dans le passe", also for an id that resolves to no practitioner; a date from today
\* on with such an id gives "medecin non trouve" and no slot list, also on a weekday
\* without working hours; every other call succeeds.
C22_OrdreDesVerifications ==
    reponse.op = "obtenir_creneaux_disponibles" =>
        LET valide == StrptimeDate(reponse.args[2]).ok
            passee == valide /\ DateAvant(DateDemandee(reponse.args[2]), DateDuJour)
            connu == reponse.args[1] \in Ids(medecins)
        IN  /\ ~valide => (~reponse.succes /\ reponse.erreur = ErrDateInvalide)
            /\ passee => (~reponse.succes /\ reponse.erreur = ErrPasse)
            /\ (valide /\ ~passee /\ ~connu) =>
                  ( /\ ~reponse.succes /\ reponse.erreur = ErrMedecinNonTrouve
                    /\ reponse.message = "" /\ reponse.creneaux_disponibles = <<>> )
            /\ (valide /\ ~passee /\ connu) => (reponse.succes /\ reponse.erreur = "")

\* C22 witness: the call for a Saturday from today on, on which nobody works, with an
\* id that resolves to no practitioner, was refused with "medecin non trouve"
C22_Temoin ==
    /\ reponse.op = "obtenir_creneaux_disponibles"
    /\ reponse.args = <<2, Samedi>>
    /\ 2 \notin Ids(medecins)
    /\ ~DateAvant(DateDemandee(Samedi), DateDuJour)
    /\ reponse.erreur = ErrMedecinNonTrouve

\* a call is in its loop
EnCours == requetes # <<>>

DureeEnCours == IF EnCours THEN requetes[1].duree ELSE medecins[1].duree_consultation

\* C23: for every consultation duration D >= 1 and every working-hours row the loop of
\* obtenir_creneaux_disponibles ends and the call returns succes with a list of at
\* most (fin - debut) / D slots, the empty list when fin - debut < D or debut >= fin;
\* for D = 0 a loop whose test holds once never ends.
C23_BoucleTermine ==
    /\ (EnCours /\ DureeEnCours >= 1) ~> ~EnCours
    /\ [][(EnCours /\ ~EnCours' /\ DureeEnCours >= 1) =>
            LET debut == MinuteDuJour(horaires[1].heure_debut)
                fin == MinuteDuJour(horaires[1].heure_fin)
            IN  /\ reponse'.succes
                /\ Len(reponse'.creneaux_disponibles) * DureeEnCours <= (IF fin > debut THEN fin - debut ELSE 0)
                /\ (fin - debut < DureeEnCours) => reponse'.creneaux_disponibles = <<>>]_vars
    /\ [][( /\ EnCours /\ DureeEnCours = 0
            /\ requetes[1].heure_actuelle <= requetes[1].heure_limite )
          => EnCours']_vars

\* C23 witness: a call for today with D = 1 and the hours 09:20-09:40 has returned the
\* slots after now (09:30) that are not booked, after twenty iterations
C23_Temoin ==
    /\ ~EnCours
    /\ reponse.op = "obtenir_creneaux_disponibles" /\ reponse.succes
    /\ medecins[1].duree_consultation = 1
    /\ horaires[1].heure_debut = H0920 /\ horaires[1].heure_fin = H0940
    /\ Len(reponse.creneaux_disponibles) \in {8, 9}

\* C24 (as claimed): after a successful modifier_rendez_vous no practitioner has two
\* appointments en_attente or confirme at the same date-time.
C24_ModificationSansDoublon ==
    [][(reponse'.op = "modifier_rendez_vous" /\ reponse'.succes) =>
          \A i, j \in Ids(rendez_vous') :
              ( /\ rendez_vous'[i].statut \in {EN_ATTENTE, CONFIRME}
                /\ rendez_vous'[j].statut \in {EN_ATTENTE, CONFIRME}
                /\ rendez_vous'[i].medecin_id = rendez_vous'[j].medecin_id
                /\ rendez_vous'[i].date_heure = rendez_vous'[j].date_heure )
              => i = j]_vars

\* C25 (as claimed): in every reachable state the status of every appointment is one
\* of en_attente, confirme, annule, termine.
C25_StatutConnu ==
    \A i \in Ids(rendez_vous) : rendez_vous[i].statut \in StatutRendezVous

\* C26 (as claimed): every appointment references a practitioner that exists and a
\* patient account that exists, and a book call with a practitioner id that resolves
\* to no practitioner creates no appointment.
C26_ReferencesValides ==
    /\ [](\A i \in Ids(rendez_vous) :
             /\ rendez_vous[i].medecin_id \in Ids(medecins)
             /\ rendez_vous[i].patient_id \in Ids(utilisateurs))
    /\ [][(reponse'.op = "reserver_rendez_vous" /\ reponse'.args[1] \notin Ids(medecins))
          => rendez_vous' = rendez_vous]_vars

\* the session cookie names, with a good signature and an age of at most twelve hours,
\* an account that exists and is active
Authentifie(jeton) ==
    /\ jeton # None
    /\ jeton[1].signature
    /\ jeton[1].age <= 12 * 3600
    /\ jeton[1].sub \in Ids(utilisateurs)
    /\ utilisateurs[jeton[1].sub].est_actif

\* C27: modifier_rendez_vous changes the store only when the session cookie is valid,
\* not expired, of an existing active account whose role is admin or secretaire; without
\* cookie, with a forged or expired one, or one of an unknown or inactive account, the
\* answer is 401; with one of an account of another role, 403; and in both cases the
\* store is unchanged.
C27_ModificationAutorisee ==
    [][reponse'.op = "modifier_rendez_vous" =>
          LET jeton == reponse'.args[1]
          IN  /\ ~Authentifie(jeton) => (reponse'.code = 401 /\ UNCHANGED store)
              /\ ( /\ Authentifie(jeton)
                    /\ utilisateurs[jeton[1].sub].role \notin {ADMIN, SECRETAIRE} )
                  => (reponse'.code = 403 /\ UNCHANGED store)
              /\ ( /\ Authentifie(jeton)
                    /\ utilisateurs[jeton[1].sub].role \in {ADMIN, SECRETAIRE} )
                  => reponse'.code \notin {401, 403}]_vars

\* C27 witness: the request with the fresh cookie of the administrator, whose account is
\* inactive, was answered 401 and the appointment is as it was
C27_Temoin ==
    /\ reponse.op = "modifier_rendez_vous" /\ reponse.code = 401
    /\ reponse.args[1] = Jeton(TRUE, 0, 1)
    /\ reponse.args[2] = 1
    /\ ~utilisateurs[1].est_actif
    /\ rendez_vous = RendezVousDemo

\* C28: of two cancel requests for appointment 1, confirmed when they arrive, that have
\* both returned, at most one has returned success.
C28_UneSeuleAnnulationReussit ==
    \A p \in Requetes, q \in Requetes :
        ( /\ p # q
          /\ requetes[p].pc = "fin" /\ requetes[q].pc = "fin"
          /\ requetes[p].rep.op = "annuler_rendez_vous"
          /\ requetes[q].rep.op = "annuler_rendez_vous"
          /\ requetes[p].args = <<1>> /\ requetes[q].args = <<1>> )
        => ~(requetes[p].rep.succes /\ requetes[q].rep.succes)

\* the part of C28 about the final status: an appointment whose cancellation has
\* returned success is cancelled
C28_StatutFinalAnnule ==
    \A p \in Requetes :
        (requetes[p].pc = "fin" /\ requetes[p].rep.succes)
        => rendez_vous[requetes[p].args[1]].statut = ANNULE

\* the answer r of obtenir_creneaux_disponibles lists the time of day heure
Propose(r, heure) ==
    \E k \in 1..Len(r.creneaux_disponibles) : r.creneaux_disponibles[k] = heure

\* the booking just answered by reponse is the only write since the client's last offer
SeuleEcritureDepuisLOffre ==
    /\ requetes # <<>>
    /\ reponse.op = "reserver_rendez_vous" /\ reponse.succes
    /\ requetes[1].offre.args = <<reponse.args[1], reponse.args[3]>>
    /\ Propose(requetes[1].offre, reponse.args[4])
    /\ rendez_vous = Append(requetes[1].rendez_vous, rendez_vous[Len(rendez_vous)])

\* C29: a booking of a slot that obtenir_creneaux_disponibles has returned for the same
\* practitioner and date, with no write in between, succeeds; and the next call of
\* obtenir_creneaux_disponibles for them, right after the booking, no longer returns
\* that slot and returns every other slot of the earlier answer that is still in the
\* future.
C29_CreneauxEtReservation ==
    /\ [][( /\ requetes # <<>>
             /\ rendez_vous = requetes[1].rendez_vous
             /\ reponse'.op = "reserver_rendez_vous"
             /\ requetes[1].offre.args = <<reponse'.args[1], reponse'.args[3]>>
             /\ Propose(requetes[1].offre, reponse'.args[4]) )
           => reponse'.succes]_vars
    /\ [][( /\ SeuleEcritureDepuisLOffre
             /\ reponse'.op = "obtenir_creneaux_disponibles"
             /\ reponse'.args = requetes[1].offre.args )
           => /\ ~Propose(reponse', reponse.args[4])
              /\ \A k \in 1..Len(requetes[1].offre.creneaux_disponibles) :
                    LET heure == requetes[1].offre.creneaux_disponibles[k]
                    IN  ( /\ heure # reponse.args[4]
                          /\ StrptimeDateHeure(reponse.args[3], heure).t > maintenant )
                        => Propose(reponse', heure)]_vars

\* C29 witness: with consultations of 20 minutes the client was offered 09:00, 09:20 and
\* 09:40 for tomorrow and has booked 09:00; a call now returns 09:20 and 09:40 only
C29_Temoin ==
    /\ SeuleEcritureDepuisLOffre
    /\ reponse.args[3] = Demain /\ reponse.args[4] = H0900
    /\ requetes[1].offre.creneaux_disponibles = <<H0900, H0920, H0940>>
    /\ ObtenirCreneauxDisponibles(1, Demain).creneaux_disponibles = <<H0920, H0940>>

\* C30: a call of consulter_mes_rendez_vous with a non-empty phone lists every
\* appointment booked with that phone whose instant is not past, under its reference
\* RDV-<id on four digits>, with its date, its time and its status: confirme after the
\* booking, annule after its cancellation; and two appointments never have the same
\* reference.
C30_ReservationPuisListe ==
    /\ (reponse.op = "consulter_mes_rendez_vous" /\ reponse.args[1] # "") =>
          \A i \in Ids(rendez_vous) :
              ( /\ utilisateurs[rendez_vous[i].patient_id].telephone = reponse.args[1]
                /\ rendez_vous[i].date_heure >= maintenant
                /\ rendez_vous[i].statut \in {CONFIRME, ANNULE} )
              => /\ reponse.succes
                 /\ \E k \in 1..Len(reponse.liste) :
                       /\ reponse.liste[k].numero = NumeroRdv(i)
                       /\ StrptimeDateHeure(reponse.liste[k].date, reponse.liste[k].heure)
                             = [ok |-> TRUE, t |-> rendez_vous[i].date_heure]
                       /\ reponse.liste[k].statut = rendez_vous[i].statut
    /\ \A i \in Ids(rendez_vous), j \in Ids(rendez_vous) :
          i # j => NumeroRdv(i) # NumeroRdv(j)

====
